---- MODULE Spec2Model ----
(***************************************************************************)
(* The crate download path of the alexandrie registry:                     *)
(*   api/crates/download.rs  `get`   (the download handler)                *)
(*   main.rs  `api_routes`           (the terminal After middleware)       *)
(* Each request slot runs the handler step by step; database statements    *)
(* of concurrent handlers interleave at statement granularity.             *)
(***************************************************************************)
EXTENDS Integers, Sequences, FiniteSets, TLC

(* ------------------------------ bounds --------------------------------- *)
\* request slots that can be in flight at once
NumSlots == 2
\* connections in the pool
PoolSize == 2
\* requests issued over a run
MaxRequests == 3
\* timer ticks a unit of work waits for a connection
MaxWait == 1

Slots == 1..NumSlots
NoSlot == 0

(* ------------------------------ inputs --------------------------------- *)
\* the (raw name, raw version) path segments of the requests issued, as
\* character sequences
Requests ==
    { << <<"f", "_", "B">>, <<"1", ".", "0", ".", "0">> >>,
      << <<"F", "-", "b">>, <<"2", ".", "0", ".", "0">> >>,
      << <<"z">>,           <<"1", ".", "0", ".", "0">> >>,
      << <<"F", "-", "b">>, <<"1", ".", "x">> >> }
Digits == {"0", "1", "2"}

\* utils::canonical_name: lower-case the name and unify '-' with '_'
CanonChar(c) ==
    CASE c = "F" -> "f"
      [] c = "B" -> "b"
      [] c = "Z" -> "z"
      [] c = "Q" -> "q"
      [] c = "-" -> "_"
      [] OTHER   -> c

canonical_name(n) == [k \in 1..Len(n) |-> CanonChar(n[k])]

\* <Version as FromStr>: MAJOR.MINOR.PATCH, all numeric
ValidVersion(s) ==
    /\ Len(s) = 5
    /\ s[1] \in Digits /\ s[3] \in Digits /\ s[5] \in Digits
    /\ s[2] = "." /\ s[4] = "."

(* --------------------- database and artifact store --------------------- *)
RowIds == 1..2
\* the `crates` table as published: display name, canonical name, downloads
InitialCrates ==
    [i \in RowIds |->
        IF i = 1
        THEN [name |-> <<"F", "-", "b">>, canon_name |-> <<"f", "_", "b">>, downloads |-> 0]
        ELSE [name |-> <<"Q">>, canon_name |-> <<"q">>, downloads |-> 2]]

\* artifacts at rest, keyed by (display name, version)
NoBytes == << >>
Artifacts(name, ver) ==
    IF name = <<"F", "-", "b">> /\ ver = <<"1", ".", "0", ".", "0">> THEN <<7, 8>>
    ELSE IF name = <<"Q">> /\ ver = <<"1", ".", "0", ".", "0">> THEN <<9>>
    ELSE NoBytes
HasArtifact(name, ver) == Artifacts(name, ver) # NoBytes

(* ------------------------------ values --------------------------------- *)
NoName == << >>
NoInfo == [found |-> FALSE, name |-> NoName, downloads |-> 0]
NoResult == [kind |-> "None", name |-> NoName, body |-> NoBytes]
NoResponse == [status |-> 0, ctype |-> "", error |-> "None",
               detail |-> <<"", NoName>>, body |-> NoBytes, errors |-> << >>]
NoSnap == [i \in RowIds |-> 0]
NoWire == [sent |-> 0, gone |-> FALSE]
ErrorKinds == {"CrateNotFound", "ArtifactNotFound", "StorageIO", "PoolExhausted"}

(* ------------------------------ router --------------------------------- *)
\* main.rs:149-185: the routes of the API in the order `api_routes`
\* registers them, paths relative to the /api/v1 mount; a segment is a
\* sequence of tokens, a parameter segment begins with ":"
Route(m, pat, h) == [method |-> m, pattern |-> pat, handler |-> h]
\* mutant of DownloadRoute: the download handler is registered for POST
DownloadRoutePostMut ==
    Route("POST", << <<"crates">>, <<":", "name">>, <<":", "version">>, <<"download">> >>,
          "crates::download::get")

\* main.rs:183-185: the download route, registered for GET only
DownloadRoute ==
    Route("GET", << <<"crates">>, <<":", "name">>, <<":", "version">>, <<"download">> >>,
          "crates::download::get")

Routes ==
    << Route("POST",   << <<"account">>, <<"register">> >>, "account::register::post"),
       Route("POST",   << <<"account">>, <<"login">> >>, "account::login::post"),
       Route("POST",   << <<"account">>, <<"tokens">> >>, "account::token::info::post"),
       Route("PUT",    << <<"account">>, <<"tokens">> >>, "account::token::generate::put"),
       Route("DELETE", << <<"account">>, <<"tokens">> >>, "account::token::revoke::delete"),
       Route("GET",    << <<"account">>, <<"tokens">>, <<":", "name">> >>, "account::token::info::get"),
       Route("GET",    << <<"categories">> >>, "categories::get"),
       Route("GET",    << <<"crates">> >>, "crates::search::get"),
       Route("PUT",    << <<"crates">>, <<"new">> >>, "crates::publish::put"),
       Route("GET",    << <<"crates">>, <<"suggest">> >>, "crates::suggest::get"),
       Route("GET",    << <<"crates">>, <<":", "name">> >>, "crates::info::get"),
       Route("GET",    << <<"crates">>, <<":", "name">>, <<"owners">> >>, "crates::owners::get"),
       Route("PUT",    << <<"crates">>, <<":", "name">>, <<"owners">> >>, "crates::owners::put"),
       Route("DELETE", << <<"crates">>, <<":", "name">>, <<"owners">> >>, "crates::owners::delete"),
       Route("DELETE", << <<"crates">>, <<":", "name">>, <<":", "version">>, <<"yank">> >>, "crates::yank::delete"),
       Route("PUT",    << <<"crates">>, <<":", "name">>, <<":", "version">>, <<"unyank">> >>, "crates::unyank::put"),
       DownloadRoute >>

RouteIds == 1..Len(Routes)
\* the order of registration in the source
RegisteredOrder == [k \in RouteIds |-> k]
\* the routes under /crates of at most two segments, whose patterns overlap
Shuffled == {k \in RouteIds : /\ Routes[k].pattern[1] = <<"crates">>
                               /\ Len(Routes[k].pattern) <= 2}
\* the registration orders looked at: every permutation of the overlapping
\* routes among their places
Orders ==
    { [k \in RouteIds |-> IF k \in Shuffled THEN f[k] ELSE k] :
        f \in {g \in [Shuffled -> Shuffled] : \A a, b \in Shuffled : a # b => g[a] # g[b]} }

IsParam(seg) == seg[1] = ":"
Matches(pat, path) ==
    /\ Len(pat) = Len(path)
    /\ \A k \in 1..Len(pat) : IsParam(pat[k]) \/ pat[k] = path[k]
\* a pattern is the more specific the more of its segments are literal
Statics(pat) == Cardinality({k \in 1..Len(pat) : ~IsParam(pat[k])})
\* the path segment a parameter of the pattern is bound to
Param(pat, path, nm) == path[CHOOSE k \in 1..Len(pat) : pat[k] = <<":", nm>>]

\* routes of method m whose pattern matches the path
Candidates(m, path) ==
    {k \in RouteIds : Routes[k].method = m /\ Matches(Routes[k].pattern, path)}
\* and among them the most specific
BestMatches(m, path) ==
    LET c == Candidates(m, path) IN
    {k \in c : \A j \in c : Statics(Routes[j].pattern) <= Statics(Routes[k].pattern)}
\* some route, of whatever method, matches the path
PathKnown(path) == \E k \in RouteIds : Matches(Routes[k].pattern, path)
Position(ord, k) == CHOOSE j \in 1..Len(ord) : ord[j] = k
Earliest(ord, S) == CHOOSE k \in S : \A j \in S : Position(ord, k) <= Position(ord, j)

NoHandler == "none"
\* mutant of Dispatch: the first route registered that matches is taken
DispatchFirstMut(ord, m, path) ==
    LET c == Candidates(m, path)
        k == Earliest(ord, c) IN
    IF c # {}
    THEN [route |-> k, handler |-> Routes[k].handler, status |-> 0]
    ELSE IF PathKnown(path)
    THEN [route |-> 0, handler |-> NoHandler, status |-> 405]
    ELSE [route |-> 0, handler |-> NoHandler, status |-> 404]

\* the router: the most specific route of the request's method that matches
\* the path; without one, MethodNotAllowed when the path is registered for
\* another method and NotFound otherwise
Dispatch(ord, m, path) ==
    LET best == BestMatches(m, path)
        k == Earliest(ord, best) IN
    IF best # {}
    THEN [route |-> k, handler |-> Routes[k].handler, status |-> 0]
    ELSE IF PathKnown(path)
    THEN [route |-> 0, handler |-> NoHandler, status |-> 405]
    ELSE [route |-> 0, handler |-> NoHandler, status |-> 404]

\* requests put to the router
Methods == {"GET", "POST", "PUT"}
DownloadPath == << <<"crates">>, <<"f", "_", "B">>, <<"1", ".", "0", ".", "0">>, <<"download">> >>
Paths ==
    { << <<"crates">>, <<"suggest">> >>,
      << <<"crates">>, <<"new">> >>,
      << <<"crates">>, <<"f", "_", "B">>, <<"1", ".", "0", ".", "0">> >>,
      DownloadPath }
NoRoute == [slot |-> NoSlot, method |-> "", path |-> << >>, handler |-> NoHandler]

VARIABLES
    crates,      \* committed rows of the crates table
    rowLock,     \* row -> slot whose open transaction wrote it, or NoSlot
    pending,     \* slot -> the downloads value its transaction has written
    pool,        \* number of idle connections
    others,      \* number of connections held by other units of work
    pc,          \* slot -> position of the handler
    rawName,     \* slot -> raw `name` path parameter
    version,     \* slot -> raw `version` path parameter
    name,        \* slot -> canonical name (download.rs:21)
    conn,        \* slot -> whether it holds a connection
    waited,      \* slot -> ticks waited for a connection
    crate_info,  \* slot -> result of the select
    result,      \* slot -> what the unit of work returned
    response,    \* slot -> the response on the wire
    log,         \* slot -> statements and store reads issued, in order
    started,     \* requests issued so far
    served,      \* row -> downloads that returned success
    committed,   \* <<row, downloads>> pairs that have been durable at some time
    snap,        \* slot -> committed downloads when the request arrived
    alone,       \* slot -> no other download of the same crate was in flight
    overlapped,  \* two downloads of one crate have been in flight together
    wire,        \* slot -> body bytes written to the client, client gone
    order,       \* the routes in their order of registration
    routed       \* the request the router dispatched last

vars == <<crates, rowLock, pending, pool, others, pc, rawName, version, name,
          conn, waited, crate_info, result, response, log, started,
          served, committed, snap, alone, overlapped, wire, order, routed>>

dbVars == <<crates, rowLock, pending>>
poolVars == <<pool, others, conn, waited>>
reqVars == <<rawName, version, name>>
routeVars == <<order, routed>>
serverVars == <<wire, routeVars>>

InitState ==
    /\ crates = InitialCrates
    /\ rowLock = [i \in RowIds |-> NoSlot]
    /\ pending = [r \in Slots |-> 0]
    /\ pool = PoolSize
    /\ others = 0
    /\ pc = [r \in Slots |-> "idle"]
    /\ rawName = [r \in Slots |-> NoName]
    /\ version = [r \in Slots |-> NoName]
    /\ name = [r \in Slots |-> NoName]
    /\ conn = [r \in Slots |-> FALSE]
    /\ waited = [r \in Slots |-> 0]
    /\ crate_info = [r \in Slots |-> NoInfo]
    /\ result = [r \in Slots |-> NoResult]
    /\ response = [r \in Slots |-> NoResponse]
    /\ log = [r \in Slots |-> << >>]
    /\ started = 0
    /\ served = [i \in RowIds |-> 0]
    /\ committed = {<<i, InitialCrates[i].downloads>> : i \in RowIds}
    /\ snap = [r \in Slots |-> NoSnap]
    /\ alone = [r \in Slots |-> TRUE]
    /\ overlapped = FALSE
    /\ wire = [r \in Slots |-> NoWire]
    /\ routed = NoRoute

\* main.rs:131-188: the state once `api_routes` has built the application
Init == InitState /\ order = RegisteredOrder

Min(S) == CHOOSE x \in S : \A y \in S : x <= y

Ended(r) == pc[r] \in {"idle", "done", "panicked"}
InFlight(r) == ~Ended(r)

(* ------------------------- request arrival ----------------------------- *)
SameCrate(n, o) == canonical_name(rawName[o]) = canonical_name(n)

\* mutant of StartOf: the lookup key is the raw name, not its canonical form
StartOfRawMut(r, reqs) ==
    /\ Ended(r)
    /\ \A p \in Slots : p < r => InFlight(p)
    /\ started < MaxRequests
    /\ started' = started + 1
    /\ \E q \in reqs :
          /\ rawName' = [rawName EXCEPT ![r] = q[1]]
          /\ version' = [version EXCEPT ![r] = q[2]]
          /\ alone' = [o \in Slots |->
                IF o = r
                THEN \A p \in Slots \ {r} : ~(InFlight(p) /\ SameCrate(q[1], p))
                ELSE IF InFlight(o) /\ SameCrate(q[1], o) THEN FALSE ELSE alone[o]]
          /\ overlapped' = (overlapped \/ \E p \in Slots \ {r} :
                                             InFlight(p) /\ SameCrate(q[1], p))
          /\ IF ValidVersion(q[2])
             THEN /\ name' = [name EXCEPT ![r] = q[1]]
                  /\ pc' = [pc EXCEPT ![r] = "acquire"]
             ELSE /\ name' = [name EXCEPT ![r] = NoName]
                  /\ pc' = [pc EXCEPT ![r] = "panicked"]
    /\ snap' = [snap EXCEPT ![r] = [i \in RowIds |-> crates[i].downloads]]
    /\ waited' = [waited EXCEPT ![r] = 0]
    /\ crate_info' = [crate_info EXCEPT ![r] = NoInfo]
    /\ result' = [result EXCEPT ![r] = NoResult]
    /\ response' = [response EXCEPT ![r] = NoResponse]
    /\ log' = [log EXCEPT ![r] = << >>]
    /\ wire' = [wire EXCEPT ![r] = NoWire]
    /\ UNCHANGED <<dbVars, pool, others, conn, served, committed>>

\* download.rs:17-21: the router hands a GET /crates/:name/:version/download
\* to the handler, which reads the path parameters; `.unwrap()` on the parsed
\* version panics when the segment is no semantic version, and the task ends
\* without producing a response
StartOf(r, reqs) ==
    /\ Ended(r)
    /\ \A p \in Slots : p < r => InFlight(p)
    /\ started < MaxRequests
    /\ started' = started + 1
    /\ \E q \in reqs :
          /\ rawName' = [rawName EXCEPT ![r] = q[1]]
          /\ version' = [version EXCEPT ![r] = q[2]]
          /\ alone' = [o \in Slots |->
                IF o = r
                THEN \A p \in Slots \ {r} : ~(InFlight(p) /\ SameCrate(q[1], p))
                ELSE IF InFlight(o) /\ SameCrate(q[1], o) THEN FALSE ELSE alone[o]]
          /\ overlapped' = (overlapped \/ \E p \in Slots \ {r} :
                                             InFlight(p) /\ SameCrate(q[1], p))
          /\ IF ValidVersion(q[2])
             THEN /\ name' = [name EXCEPT ![r] = canonical_name(q[1])]
                  /\ pc' = [pc EXCEPT ![r] = "acquire"]
             ELSE /\ name' = [name EXCEPT ![r] = NoName]
                  /\ pc' = [pc EXCEPT ![r] = "panicked"]
    /\ snap' = [snap EXCEPT ![r] = [i \in RowIds |-> crates[i].downloads]]
    /\ waited' = [waited EXCEPT ![r] = 0]
    /\ crate_info' = [crate_info EXCEPT ![r] = NoInfo]
    /\ result' = [result EXCEPT ![r] = NoResult]
    /\ response' = [response EXCEPT ![r] = NoResponse]
    /\ log' = [log EXCEPT ![r] = << >>]
    /\ wire' = [wire EXCEPT ![r] = NoWire]
    /\ UNCHANGED <<dbVars, pool, others, conn, served, committed>>

Start(r) == StartOf(r, Requests) /\ UNCHANGED routeVars

(* ------------------------ response and pipeline ------------------------ *)
\* Display of the error, as put in `detail`
Display(res) ==
    CASE res.kind = "CrateNotFound"    -> <<"no crate named", res.name>>
      [] res.kind = "ArtifactNotFound" -> <<"crate artifact not found", NoName>>
      [] res.kind = "StorageIO"        -> <<"storage i/o error", NoName>>
      [] res.kind = "PoolExhausted"    -> <<"connection pool exhausted", NoName>>
      [] OTHER                         -> <<"", NoName>>

\* mutant of IntoResponse: the buffer read from the store is not set as body
IntoResponseMut(res) ==
    IF res.kind = "Ok"
    THEN [status |-> 200, ctype |-> "application/octet-stream", error |-> "None",
          detail |-> <<"", NoName>>, body |-> NoBytes, errors |-> << >>]
    ELSE [status |-> 500, ctype |-> "", error |-> res.kind,
          detail |-> Display(res), body |-> NoBytes, errors |-> << >>]

\* download.rs:46-48,55: `Ok(transaction.await?)`: the 200 octet-stream
\* response, or the error turned into a response that carries it
IntoResponse(res) ==
    IF res.kind = "Ok"
    THEN [status |-> 200, ctype |-> "application/octet-stream", error |-> "None",
          detail |-> <<"", NoName>>, body |-> res.body, errors |-> << >>]
    ELSE [status |-> 500, ctype |-> "", error |-> res.kind,
          detail |-> Display(res), body |-> NoBytes, errors |-> << >>]

\* mutant of AfterMiddleware: the error payload is set, the status is not
AfterMiddlewareMut(res) ==
    IF res.error # "None"
    THEN [res EXCEPT !.ctype = "application/json",
                     !.errors = << [detail |-> res.detail] >>]
    ELSE res

\* mutant of AfterMiddleware: every response is rewritten, with or without
\* an error
AfterMiddlewareAllMut(res) ==
    [res EXCEPT !.status = 200, !.ctype = "application/json",
                !.errors = << [detail |-> res.detail] >>]

\* main.rs:135-147: the After middleware; on a response that carries an
\* error the body becomes the payload {"errors": [{"detail": ...}]} with
\* the error's display string, the status 200 and the content type JSON
AfterMiddleware(res) ==
    IF res.error # "None"
    THEN [res EXCEPT !.status = 200, !.ctype = "application/json",
                     !.errors = << [detail |-> res.detail] >>]
    ELSE res

\* download.rs:55: the handler returns what the unit of work returned, and
\* the response passes the pipeline's After stage
Return(r, res) ==
    /\ result' = [result EXCEPT ![r] = res]
    /\ response' = [response EXCEPT ![r] = AfterMiddleware(IntoResponse(res))]
    /\ pc' = [pc EXCEPT ![r] = "done"]
    /\ crate_info' = [crate_info EXCEPT ![r] = NoInfo]
    /\ waited' = [waited EXCEPT ![r] = 0]
    /\ snap' = [snap EXCEPT ![r] = NoSnap]
    /\ alone' = [alone EXCEPT ![r] = TRUE]

(* --------------------- Repo: pool and transaction ---------------------- *)
\* Repo::transaction takes one idle connection and begins a transaction
Acquire(r) ==
    /\ pc[r] = "acquire"
    /\ pool > 0
    /\ conn' = [conn EXCEPT ![r] = TRUE]
    /\ pool' = pool - 1
    /\ pc' = [pc EXCEPT ![r] = "select"]
    /\ log' = [log EXCEPT ![r] = Append(@, <<"begin">>)]
    /\ UNCHANGED <<dbVars, others, waited, reqVars, serverVars, crate_info, result, response,
                   started, served, committed, snap, alone, overlapped>>

\* no connection is idle: the wait for one is bounded
Wait(r) ==
    /\ pc[r] = "acquire"
    /\ pool = 0
    /\ waited[r] < MaxWait
    /\ waited' = [waited EXCEPT ![r] = @ + 1]
    /\ UNCHANGED <<dbVars, pool, others, conn, pc, reqVars, serverVars, crate_info, result,
                   response, log, started, served, committed, snap, alone, overlapped>>

\* mutant of Timeout: the wait for a connection has no time limit
TimeoutMut(r) ==
    /\ pc[r] = "acquire"
    /\ pool = 0
    /\ FALSE
    /\ UNCHANGED vars

\* the bounded wait expired with every connection still busy
Timeout(r) ==
    /\ pc[r] = "acquire"
    /\ pool = 0
    /\ waited[r] = MaxWait
    /\ Return(r, [kind |-> "PoolExhausted", name |-> NoName, body |-> NoBytes])
    /\ UNCHANGED <<dbVars, pool, others, conn, reqVars, serverVars, log, started, served,
                   committed, overlapped>>

\* units of work of the other endpoints draw from the same pool
OtherBegin ==
    /\ pool > 0
    /\ others' = others + 1
    /\ pool' = pool - 1
    /\ UNCHANGED <<dbVars, conn, waited, pc, reqVars, serverVars, crate_info, result, response,
                   log, started, served, committed, snap, alone, overlapped>>

OtherEnd ==
    /\ others > 0
    /\ others' = others - 1
    /\ pool' = pool + 1
    /\ UNCHANGED <<dbVars, conn, waited, pc, reqVars, serverVars, crate_info, result, response,
                   log, started, served, committed, snap, alone, overlapped>>

\* mutant of RowsNamed: the update has no filter on the name
RowsNamedMut(n) == RowIds

\* rows an `UPDATE crates ... WHERE name = n` statement writes
RowsNamed(n) == {i \in RowIds : crates[i].name = n}

\* mutant of Visible: statements read what open transactions have written
VisibleMut(r, i) ==
    IF rowLock[i] # NoSlot THEN pending[rowLock[i]] ELSE crates[i].downloads

\* the downloads value a statement of slot r sees in row i: committed data,
\* or what its own transaction wrote
Visible(r, i) == IF rowLock[i] = r THEN pending[r] ELSE crates[i].downloads

\* mutant of Rollback: the connection of a failed unit of work is not
\* given back to the pool
RollbackLeakMut(r, err) ==
    /\ rowLock' = [i \in RowIds |-> IF rowLock[i] = r THEN NoSlot ELSE rowLock[i]]
    /\ pending' = [pending EXCEPT ![r] = 0]
    /\ conn' = [conn EXCEPT ![r] = FALSE]
    /\ Return(r, err)
    /\ UNCHANGED <<crates, pool, others, served, committed>>

\* the closure returned Err: every statement of the transaction is undone,
\* the connection goes back to the pool and the error goes to the caller
Rollback(r, err) ==
    /\ rowLock' = [i \in RowIds |-> IF rowLock[i] = r THEN NoSlot ELSE rowLock[i]]
    /\ pending' = [pending EXCEPT ![r] = 0]
    /\ pool' = pool + 1
    /\ conn' = [conn EXCEPT ![r] = FALSE]
    /\ Return(r, err)
    /\ UNCHANGED <<crates, others, served, committed>>

\* the closure returned Ok: the transaction commits, the connection goes
\* back to the pool and the value goes to the caller
CommitTx(r, ok) ==
    /\ crates' = [i \in RowIds |->
                    IF rowLock[i] = r
                    THEN [crates[i] EXCEPT !.downloads = pending[r]]
                    ELSE crates[i]]
    /\ committed' = committed \cup {<<i, pending[r]>> : i \in {j \in RowIds : rowLock[j] = r}}
    /\ served' = [i \in RowIds |-> IF rowLock[i] = r THEN served[i] + 1 ELSE served[i]]
    /\ rowLock' = [i \in RowIds |-> IF rowLock[i] = r THEN NoSlot ELSE rowLock[i]]
    /\ pending' = [pending EXCEPT ![r] = 0]
    /\ pool' = pool + 1
    /\ conn' = [conn EXCEPT ![r] = FALSE]
    /\ Return(r, ok)
    /\ UNCHANGED others

(* ---------------------- the unit of work of `get` ---------------------- *)
\* `?` on a store failure: the store's NotFound stays apart from its I/O errors
FromStore(outcome) ==
    [kind |-> IF outcome = "NotFound" THEN "ArtifactNotFound" ELSE "StorageIO",
     name |-> NoName, body |-> NoBytes]

\* mutant of Select: a missing row is taken as a fresh crate with no
\* downloads instead of ending the unit of work
SelectMut(r) ==
    /\ pc[r] = "select"
    /\ log' = [log EXCEPT ![r] = Append(@, <<"select", name[r]>>)]
    /\ LET hit == {i \in RowIds : crates[i].canon_name = name[r]} IN
          crate_info' = [crate_info EXCEPT ![r] =
              IF hit = {}
              THEN [found |-> TRUE, name |-> name[r], downloads |-> 0]
              ELSE [found |-> TRUE, name |-> crates[Min(hit)].name,
                    downloads |-> crates[Min(hit)].downloads]]
    /\ pc' = [pc EXCEPT ![r] = "update"]
    /\ UNCHANGED <<dbVars, poolVars, reqVars, serverVars, result, response, started, served,
                   committed, snap, alone, overlapped>>

\* download.rs:32-36,50-52: SELECT name, downloads WHERE canon_name = <name>
\* LIMIT 1; with no row the closure returns CrateNotFound { name }
Select(r) ==
    /\ pc[r] = "select"
    /\ log' = [log EXCEPT ![r] = Append(@, <<"select", name[r]>>)]
    /\ LET hit == {i \in RowIds : crates[i].canon_name = name[r]} IN
          IF hit = {}
          THEN /\ Rollback(r, [kind |-> "CrateNotFound", name |-> name[r],
                               body |-> NoBytes])
          ELSE /\ crate_info' = [crate_info EXCEPT ![r] =
                     [found |-> TRUE, name |-> crates[Min(hit)].name,
                      downloads |-> Visible(r, Min(hit))]]
               /\ pc' = [pc EXCEPT ![r] = "update"]
               /\ UNCHANGED <<dbVars, poolVars, result, response, served, committed,
                              snap, alone>>
    /\ UNCHANGED <<reqVars, serverVars, started, overlapped>>

\* mutant of Update: the count read is written back without the increment
UpdateMut(r) ==
    /\ pc[r] = "update"
    /\ \A i \in RowsNamed(crate_info[r].name) : rowLock[i] \in {NoSlot, r}
    /\ rowLock' = [i \in RowIds |->
                     IF i \in RowsNamed(crate_info[r].name) THEN r ELSE rowLock[i]]
    /\ pending' = [pending EXCEPT ![r] = crate_info[r].downloads]
    /\ log' = [log EXCEPT ![r] = Append(@, <<"update", crate_info[r].name>>)]
    /\ pc' = [pc EXCEPT ![r] = "read_crate"]
    /\ UNCHANGED <<crates, poolVars, reqVars, serverVars, crate_info, result, response,
                   started, served, committed, snap, alone, overlapped>>

\* download.rs:38-42: UPDATE crates SET downloads = <downloads + 1>
\* WHERE name = <name>; the statement waits while another open transaction
\* has written one of the rows
Update(r) ==
    /\ pc[r] = "update"
    /\ \A i \in RowsNamed(crate_info[r].name) : rowLock[i] \in {NoSlot, r}
    /\ rowLock' = [i \in RowIds |->
                     IF i \in RowsNamed(crate_info[r].name) THEN r ELSE rowLock[i]]
    /\ pending' = [pending EXCEPT ![r] = crate_info[r].downloads + 1]
    /\ log' = [log EXCEPT ![r] = Append(@, <<"update", crate_info[r].name>>)]
    /\ pc' = [pc EXCEPT ![r] = "read_crate"]
    /\ UNCHANGED <<crates, poolVars, reqVars, serverVars, crate_info, result, response,
                   started, served, committed, snap, alone, overlapped>>

\* mutant of ReadCrate: the store is read after the unit of work has
\* returned, so a failed read no longer undoes the update
ReadCrateLateMut(r) ==
    /\ pc[r] = "read_crate"
    /\ \/ /\ HasArtifact(crate_info[r].name, version[r])
          /\ CommitTx(r, [kind |-> "Ok", name |-> NoName,
                          body |-> Artifacts(crate_info[r].name, version[r])])
       \/ /\ IF HasArtifact(crate_info[r].name, version[r])
             THEN CommitTx(r, FromStore("IOError"))
             ELSE CommitTx(r, FromStore("NotFound"))
    /\ log' = [log EXCEPT ![r] =
          Append(Append(@, <<"commit">>),
                 <<"read_crate", crate_info[r].name, version[r]>>)]
    /\ UNCHANGED <<reqVars, serverVars, started, overlapped>>

\* mutant of ReadCrate: every failure of the store is reported as the one
\* storage error
ReadCrateGenericMut(r) ==
    /\ pc[r] = "read_crate"
    /\ \/ /\ HasArtifact(crate_info[r].name, version[r])
          /\ CommitTx(r, [kind |-> "Ok", name |-> NoName,
                          body |-> Artifacts(crate_info[r].name, version[r])])
          /\ log' = [log EXCEPT ![r] =
                Append(Append(@, <<"read_crate", crate_info[r].name, version[r]>>),
                       <<"commit">>)]
       \/ /\ Rollback(r, FromStore("IOError"))
          /\ log' = [log EXCEPT ![r] =
                Append(@, <<"read_crate", crate_info[r].name, version[r]>>)]
    /\ UNCHANGED <<reqVars, serverVars, started, overlapped>>

\* mutant of ReadCrate: the store is asked by the canonical name
ReadCrateCanonMut(r) ==
    /\ pc[r] = "read_crate"
    /\ \/ /\ HasArtifact(name[r], version[r])
          /\ CommitTx(r, [kind |-> "Ok", name |-> NoName,
                          body |-> Artifacts(name[r], version[r])])
          /\ log' = [log EXCEPT ![r] =
                Append(Append(@, <<"read_crate", name[r], version[r]>>), <<"commit">>)]
       \/ /\ IF HasArtifact(name[r], version[r])
             THEN Rollback(r, FromStore("IOError"))
             ELSE Rollback(r, FromStore("NotFound"))
          /\ log' = [log EXCEPT ![r] = Append(@, <<"read_crate", name[r], version[r]>>)]
    /\ UNCHANGED <<reqVars, serverVars, started, overlapped>>

\* mutant of ReadCrate: the response leaves the unit of work before the
\* transaction has committed
ReadCrateEarlyMut(r) ==
    /\ pc[r] = "read_crate"
    /\ IF HasArtifact(crate_info[r].name, version[r])
       THEN /\ Return(r, [kind |-> "Ok", name |-> NoName,
                          body |-> Artifacts(crate_info[r].name, version[r])])
            /\ UNCHANGED <<dbVars, pool, others, conn, served, committed>>
       ELSE Rollback(r, FromStore("NotFound"))
    /\ log' = [log EXCEPT ![r] =
          Append(@, <<"read_crate", crate_info[r].name, version[r]>>)]
    /\ UNCHANGED <<reqVars, serverVars, started, overlapped>>

\* download.rs:43-49,53: storage.read_crate(&name, version)?, then
\* krate.read_to_end(&mut buf)?, the 200 response with the bytes as body,
\* and the commit that follows the closure's Ok. The store answers NotFound
\* for an artifact it does not hold; reading one it holds gives the bytes
\* or fails with an I/O error.
ReadCrate(r) ==
    /\ pc[r] = "read_crate"
    /\ \/ /\ HasArtifact(crate_info[r].name, version[r])
          /\ CommitTx(r, [kind |-> "Ok", name |-> NoName,
                          body |-> Artifacts(crate_info[r].name, version[r])])
          /\ log' = [log EXCEPT ![r] =
                Append(Append(@, <<"read_crate", crate_info[r].name, version[r]>>),
                       <<"commit">>)]
       \/ /\ IF HasArtifact(crate_info[r].name, version[r])
             THEN Rollback(r, FromStore("IOError"))
             ELSE Rollback(r, FromStore("NotFound"))
          /\ log' = [log EXCEPT ![r] =
                Append(@, <<"read_crate", crate_info[r].name, version[r]>>)]
    /\ UNCHANGED <<reqVars, serverVars, started, overlapped>>

Step(r) ==
    \/ Start(r)
    \/ Acquire(r) \/ Wait(r) \/ Timeout(r)
    \/ Select(r) \/ Update(r)
    \/ ReadCrate(r)

Next == (\E r \in Slots : Step(r)) \/ OtherBegin \/ OtherEnd

Spec == Init /\ [][Next]_vars

\* The wait for a connection does not depend on which crate is asked for:
\* the pool is studied with every request a download of the published
\* artifact, the other units of work taking and returning connections.
PoolRequests == { << <<"f", "_", "B">>, <<"1", ".", "0", ".", "0">> >> }
StartPool(r) == StartOf(r, PoolRequests) /\ UNCHANGED routeVars

PoolStep(r) ==
    \/ StartPool(r)
    \/ Acquire(r) \/ Wait(r) \/ Timeout(r)
    \/ Select(r) \/ Update(r)
    \/ ReadCrate(r)

PoolNext == (\E r \in Slots : PoolStep(r)) \/ OtherBegin \/ OtherEnd

\* Names that differ as written and agree in canonical form: every request
\* asks for the published version, by one or the other spelling of the
\* crate's name or by a name no crate has. Which row a name finds does not
\* depend on the wait for a connection: the downloads have the pool to
\* themselves, and with a connection for every slot none of them waits.
CanonRequests ==
    { << <<"f", "_", "B">>, <<"1", ".", "0", ".", "0">> >>,
      << <<"F", "-", "b">>, <<"1", ".", "0", ".", "0">> >>,
      << <<"z">>,           <<"1", ".", "0", ".", "0">> >> }
StartCanon(r) == StartOf(r, CanonRequests) /\ UNCHANGED routeVars

CanonStep(r) ==
    \/ StartCanon(r)
    \/ Acquire(r)
    \/ Select(r) \/ Update(r)
    \/ ReadCrate(r)

CanonNext == \E r \in Slots : CanonStep(r)

CanonSpec == Init /\ [][CanonNext]_vars

\* the pool's timed wait always runs on: a unit of work waiting for a
\* connection gets one, waits another tick, or times out
FairSpec ==
    /\ Init /\ [][PoolNext]_vars
    /\ \A r \in Slots : WF_vars(Acquire(r) \/ Wait(r) \/ Timeout(r))

(* ----------------------- the body on the wire -------------------------- *)
\* download.rs:44-48,55: the body is the buffer filled inside the unit of
\* work; the server writes it to the client once `get` has returned the
\* response, one byte a step
Emit(r) ==
    /\ pc[r] = "done"
    /\ ~wire[r].gone
    /\ wire[r].sent < Len(response[r].body)
    /\ wire' = [wire EXCEPT ![r].sent = @ + 1]
    /\ UNCHANGED <<dbVars, poolVars, pc, reqVars, routeVars, crate_info, result,
                   response, log, started, served, committed, snap, alone,
                   overlapped>>

\* the client goes away while bytes of the body are still to be written:
\* the rest of the buffer is dropped
Disconnect(r) ==
    /\ pc[r] = "done"
    /\ ~wire[r].gone
    /\ wire[r].sent < Len(response[r].body)
    /\ wire' = [wire EXCEPT ![r].gone = TRUE]
    /\ UNCHANGED <<dbVars, poolVars, pc, reqVars, routeVars, crate_info, result,
                   response, log, started, served, committed, snap, alone,
                   overlapped>>

StreamNext == PoolNext \/ \E r \in Slots : Emit(r) \/ Disconnect(r)

\* the download with the writing of its body to the client
StreamSpec == Init /\ [][StreamNext]_vars

(* ------------------------ requests at the router ----------------------- *)
\* a request that does not reach the download handler. When no route takes
\* it, no handler runs and the router's own NotFound or MethodNotAllowed
\* response, which carries no error, passes the After stage; when another
\* handler takes it, `status` is 0 and the response is that handler's
NotDownload(r, status) ==
    /\ Ended(r)
    /\ \A p \in Slots : p < r => InFlight(p)
    /\ started < MaxRequests
    /\ started' = started + 1
    /\ pc' = [pc EXCEPT ![r] = "done"]
    /\ response' = [response EXCEPT ![r] =
                        AfterMiddleware([NoResponse EXCEPT !.status = status])]
    /\ result' = [result EXCEPT ![r] = NoResult]
    /\ rawName' = [rawName EXCEPT ![r] = NoName]
    /\ version' = [version EXCEPT ![r] = NoName]
    /\ name' = [name EXCEPT ![r] = NoName]
    /\ log' = [log EXCEPT ![r] = << >>]
    /\ wire' = [wire EXCEPT ![r] = NoWire]
    /\ UNCHANGED <<dbVars, poolVars, crate_info, served, committed, snap, alone,
                   overlapped>>

\* main.rs:183-185,228: the server takes a request of the API to the route
\* the router selects; the download handler gets the `name` and `version`
\* segments as its parameters. What the handlers of the other routes do
\* is not followed: their requests are left with the router's selection.
Respond(r) ==
    /\ Ended(r)
    /\ started < MaxRequests
    /\ \E m \in Methods, path \in Paths :
        LET d == Dispatch(order, m, path) IN
        /\ routed' = [slot |-> r, method |-> m, path |-> path, handler |-> d.handler]
        /\ IF d.handler = "crates::download::get"
           THEN StartOf(r, { << Param(Routes[d.route].pattern, path, "name"),
                               Param(Routes[d.route].pattern, path, "version") >> })
           ELSE NotDownload(r, d.status)
    /\ UNCHANGED order

RouterStep(r) ==
    \/ Respond(r)
    \/ Acquire(r)
    \/ Select(r) \/ Update(r)
    \/ ReadCrate(r)

RouterNext == \E r \in Slots : RouterStep(r)

\* the routes may have been registered in any of the orders looked at
RouterInit == InitState /\ order \in Orders

\* requests of any method and path come in through the router; the
\* downloads have the pool to themselves
RouterSpec == RouterInit /\ [][RouterNext]_vars

(* ============================== claims ================================= *)
HasEvent(l, tag) == \E k \in 1..Len(l) : l[k][1] = tag
AllEnded == \A r \in Slots : Ended(r)
Returned(r, kind) == pc[r] = "done" /\ result[r].kind = kind
\* the step in which slot r's unit of work ends with `kind`
Returns(r, kind) == pc[r] # "done" /\ pc'[r] = "done" /\ result'[r].kind = kind

\* C1: once every download has returned, each crate's download_count is its
\* initial value plus the number of downloads that returned success
C1_NoLostUpdate ==
    AllEnded =>
        \A i \in RowIds : crates[i].downloads = InitialCrates[i].downloads + served[i]

\* C2: a successful download that ran with no other download of its crate
\* in flight leaves download_count exactly 1 above its value when the
\* request arrived; while downloads never overlap, the count is the initial
\* value plus the number of successful downloads
C2_SoloDownloadAddsOne ==
    /\ [][\A r \in Slots :
            (Returns(r, "Ok") /\ alone[r]) =>
                \A i \in RowsNamed(crate_info[r].name) :
                    crates'[i].downloads = snap[r][i] + 1]_vars
    /\ []((AllEnded /\ ~overlapped) =>
            \A i \in RowIds :
                crates[i].downloads = InitialCrates[i].downloads + served[i])

C2_Witness ==
    /\ AllEnded /\ ~overlapped
    /\ served[1] = 2 /\ crates[1].downloads = 2

\* C3: the committed download_count is never negative and no step lowers it
C3_Monotonic ==
    [][\A i \in RowIds :
          /\ crates'[i].downloads >= crates[i].downloads
          /\ crates'[i].downloads >= 0]_vars

\* C4: when the store read fails after the update was issued, the unit of
\* work rolls back: the step leaves the committed table as it was, nothing
\* of the transaction stays written, and a request that ran alone leaves
\* every download_count at its value when the request arrived
C4_StoreFailureRollsBack ==
    [][\A r \in Slots :
          (Returns(r, "ArtifactNotFound") \/ Returns(r, "StorageIO")) =>
              /\ HasEvent(log[r], "update")
              /\ \E i \in RowIds : rowLock[i] = r
              /\ crates' = crates
              /\ \A i \in RowIds : rowLock'[i] # r
              /\ alone[r] =>
                    \A i \in RowsNamed(crate_info[r].name) :
                        crates'[i].downloads = snap[r][i]]_vars

C4_Witness ==
    \E r \in Slots :
        /\ Returned(r, "ArtifactNotFound")
        /\ HasEvent(log[r], "update")
        /\ crates = InitialCrates

\* C5: a download whose canonical name matches no row fails with
\* CrateNotFound carrying the canonical name, having issued no update and
\* read nothing from the store, and the step leaves the table as it was
NoRowFor(n) == \A i \in RowIds : crates[i].canon_name # canonical_name(n)
C5_CrateNotFound ==
    /\ [](\A r \in Slots :
            /\ (pc[r] = "done" /\ NoRowFor(rawName[r])) =>
                    result[r].kind \in {"CrateNotFound", "PoolExhausted"}
            /\ Returned(r, "CrateNotFound") =>
                    /\ NoRowFor(rawName[r])
                    /\ result[r].name = canonical_name(rawName[r])
                    /\ ~HasEvent(log[r], "update")
                    /\ ~HasEvent(log[r], "read_crate")
                    /\ ~HasEvent(log[r], "commit"))
    /\ [][\A r \in Slots : Returns(r, "CrateNotFound") =>
            /\ crates' = crates
            /\ rowLock' = rowLock]_vars

C5_Witness ==
    \E r \in Slots :
        /\ Returned(r, "CrateNotFound")
        /\ result[r].name = <<"z">>
        /\ HasEvent(log[r], "select")

\* C6 as claimed: each failure kind has its own status on the wire, 404 for
\* crate or artifact not found, 503 or 500 for pool exhaustion or storage
WireStatus(kind) ==
    CASE kind \in {"CrateNotFound", "ArtifactNotFound"} -> {404}
      [] kind \in {"PoolExhausted", "StorageIO"}        -> {503, 500}
      [] OTHER                                          -> {200}
C6_DistinctStatus ==
    \A r \in Slots :
        (pc[r] = "done" /\ result[r].kind \in ErrorKinds) =>
            response[r].status \in WireStatus(result[r].kind)

\* C6 as amended: every failure kind reaches the client with the one status
\* 200 and a JSON payload whose detail is the error's display string
C6_UniformStatus ==
    \A r \in Slots :
        (pc[r] = "done" /\ result[r].kind \in ErrorKinds) =>
            /\ response[r].status = 200
            /\ response[r].ctype = "application/json"
            /\ response[r].error = result[r].kind
            /\ response[r].detail = Display(result[r])

C6_Witness ==
    \E r, q \in Slots :
        /\ Returned(r, "CrateNotFound") /\ Returned(q, "StorageIO")
        /\ response[r].status = response[q].status

\* C7: a request whose version segment is no semantic version ends with a
\* 400 response, with no connection taken and no statement issued
C7_BadVersionIs400 ==
    \A r \in Slots :
        (Ended(r) /\ pc[r] # "idle" /\ ~ValidVersion(version[r])) =>
            /\ pc[r] = "done"
            /\ response[r].status = 400
            /\ log[r] = << >>

\* C8: with the crate row found and the artifact absent, the handler's
\* error is ArtifactNotFound, which is neither CrateNotFound nor the
\* storage I/O error; CrateNotFound comes only from a missing row and the
\* I/O error only from a failed read of an artifact that is there
ReadKey(l) == LET k == CHOOSE k \in 1..Len(l) : l[k][1] = "read_crate" IN <<l[k][2], l[k][3]>>
C8_ArtifactNotFoundKind ==
    \A r \in Slots :
        /\ (pc[r] = "done" /\ HasEvent(log[r], "read_crate")) =>
              IF HasArtifact(ReadKey(log[r])[1], ReadKey(log[r])[2])
              THEN result[r].kind \in {"Ok", "StorageIO"}
              ELSE result[r].kind = "ArtifactNotFound"
        /\ Returned(r, "ArtifactNotFound") =>
              /\ ~NoRowFor(rawName[r])
              /\ HasEvent(log[r], "read_crate")
        /\ Returned(r, "StorageIO") => HasEvent(log[r], "read_crate")
        /\ Returned(r, "CrateNotFound") => ~HasEvent(log[r], "read_crate")

C8_Witness ==
    \E r \in Slots :
        /\ Returned(r, "ArtifactNotFound")
        /\ ReadKey(log[r]) = << <<"F", "-", "b">>, <<"2", ".", "0", ".", "0">> >>

\* C9: a request waiting for a connection does not wait forever; when it
\* stops waiting with every connection still held by others it returns
\* PoolExhausted, having issued no statement and changed no row
C9_PoolExhaustion ==
    /\ \A r \in Slots : (pc[r] = "acquire") ~> (pc[r] # "acquire")
    /\ [][\A r \in Slots :
            (pc[r] = "acquire" /\ pc'[r] # "acquire" /\ pool = 0) =>
                /\ Returns(r, "PoolExhausted")
                /\ waited[r] = MaxWait
                /\ log'[r] = << >>
                /\ ~conn'[r]
                /\ dbVars' = dbVars]_vars

C9_Witness ==
    \E r \in Slots :
        /\ Returned(r, "PoolExhausted")
        /\ pool = 0
        /\ \A q \in Slots : ~conn[q]

\* C10: the download_count a unit of work has read is one that was durable
\* at some time, never one that only an open transaction had written
RowOf(n) == CHOOSE i \in RowIds : crates[i].name = n
C10_NoDirtyRead ==
    \A r \in Slots :
        crate_info[r].found =>
            <<RowOf(crate_info[r].name), crate_info[r].downloads>> \in committed

\* a unit of work holds the count it read while another one's increment,
\* a value that was never durable, is still uncommitted
C10_Witness ==
    \E r, q \in Slots :
        /\ r # q
        /\ crate_info[r].found /\ pc[r] = "update"
        /\ rowLock[1] = q
        /\ <<1, pending[q]>> \notin committed

\* C11: a download that returned success answers 200 with content type
\* application/octet-stream and, as body, exactly the bytes the store holds
\* for the display name of the row looked up and the version requested
C11_SuccessResponse ==
    \A r \in Slots :
        Returned(r, "Ok") =>
            /\ response[r].status = 200
            /\ response[r].ctype = "application/octet-stream"
            /\ response[r].error = "None"
            /\ ~NoRowFor(rawName[r])
            /\ \A i \in RowIds :
                  crates[i].canon_name = canonical_name(rawName[r]) =>
                      /\ HasArtifact(crates[i].name, version[r])
                      /\ response[r].body = Artifacts(crates[i].name, version[r])

C11_Witness ==
    \E r \in Slots :
        /\ Returned(r, "Ok")
        /\ rawName[r] = <<"f", "_", "B">>
        /\ response[r].body = <<7, 8>>

\* C12: bytes of a download's body reach the client only after the
\* transaction with the increment has committed and given up its row and
\* its connection; writing a byte, or the client going away at any point of
\* the body, changes no committed row and issues no statement, and the
\* request whose client went away issues none afterwards
Streaming(r) == wire[r].sent > 0 \/ wire[r].gone
C12_CommitBeforeBody ==
    /\ [](\A r \in Slots :
            Streaming(r) =>
                /\ Returned(r, "Ok")
                /\ HasEvent(log[r], "commit")
                /\ ~conn[r]
                /\ \A i \in RowIds : rowLock[i] # r)
    /\ [][\A r \in Slots :
            (pc[r] = "done" /\ pc'[r] = "done" /\ wire'[r] # wire[r]) =>
                /\ dbVars' = dbVars
                /\ served' = served
                /\ log' = log]_vars
    /\ [][\A r \in Slots :
            (wire[r].gone /\ wire'[r].gone) => log'[r] = log[r]]_vars

\* the client went away after the first of the two bytes, the one
\* increment of the download being committed
C12_Witness ==
    \E r \in Slots :
        /\ wire[r].gone /\ wire[r].sent = 1
        /\ Len(response[r].body) = 2
        /\ started = 1
        /\ crates[1].downloads = 1

\* C13: the After stage turns every response that carries an error into a
\* JSON response whose `errors` array holds exactly one object, its
\* `detail` the error's display string, and whose status is the same for
\* every kind of error; a response without error leaves the stage as the
\* handler built it, status, content type and body
C13_AfterStage ==
    /\ \A r \in Slots :
          (pc[r] = "done" /\ result[r].kind \in ErrorKinds) =>
              /\ response[r].ctype = "application/json"
              /\ Len(response[r].errors) = 1
              /\ response[r].errors[1] = [detail |-> Display(result[r])]
    /\ \A r, q \in Slots :
          (/\ pc[r] = "done" /\ result[r].kind \in ErrorKinds
           /\ pc[q] = "done" /\ result[q].kind \in ErrorKinds) =>
              response[r].status = response[q].status
    /\ \A r \in Slots :
          Returned(r, "Ok") =>
              /\ response[r] = IntoResponse(result[r])
              /\ response[r].errors = << >>

C13_Witness ==
    \E r, q \in Slots :
        /\ Returned(r, "ArtifactNotFound")
        /\ response[r].errors = << [detail |-> <<"crate artifact not found", NoName>>] >>
        /\ Returned(q, "Ok")
        /\ response[q].ctype = "application/octet-stream"
        /\ response[q].body = <<7, 8>>

\* C14: a download holds a connection only from the begin of its unit of
\* work to its commit or rollback, and never more than one; every
\* connection of the pool is idle or held by exactly one holder, so the
\* connections held never exceed the pool size; once every request has
\* returned, no request holds a connection and all are idle again or with
\* the other units of work
Holders == {r \in Slots : conn[r]}
C14_PoolAccounting ==
    /\ pool >= 0 /\ others >= 0
    /\ pool + others + Cardinality(Holders) = PoolSize
    /\ Cardinality(Holders) <= PoolSize
    /\ \A r \in Slots :
          /\ conn[r] <=> pc[r] \in {"select", "update", "read_crate"}
          /\ conn[r] => /\ HasEvent(log[r], "begin")
                        /\ ~HasEvent(log[r], "commit")
          /\ (\E i \in RowIds : rowLock[i] = r) => conn[r]
    /\ AllEnded => (Holders = {} /\ pool + others = PoolSize)

\* every connection of the pool is held by a download in its unit of work
C14_Witness ==
    /\ Cardinality(Holders) = PoolSize
    /\ pool = 0
    /\ \E r \in Slots : pc[r] = "read_crate"

\* C15: the row a download works on is the one whose canonical name is the
\* canonical form of the raw path name: requests whose raw names differ
\* and agree in canonical form find the same row, and a successful one
\* commits its increment to that row's download_count and to no other; a
\* raw name whose canonical form no row has gives CrateNotFound
CanonRows(n) == {i \in RowIds : crates[i].canon_name = canonical_name(n)}
C15_CanonicalLookup ==
    /\ [](\A r \in Slots :
            /\ crate_info[r].found =>
                  \E i \in CanonRows(rawName[r]) : crate_info[r].name = crates[i].name
            /\ (pc[r] \in {"update", "read_crate"}) => crate_info[r].found
            /\ (pc[r] = "done" /\ CanonRows(rawName[r]) = {}) =>
                  result[r].kind = "CrateNotFound"
            /\ Returned(r, "CrateNotFound") => CanonRows(rawName[r]) = {})
    /\ [](\A r, q \in Slots :
            (/\ crate_info[r].found /\ crate_info[q].found
             /\ canonical_name(rawName[r]) = canonical_name(rawName[q])) =>
                crate_info[r].name = crate_info[q].name)
    /\ [][\A r \in Slots :
            Returns(r, "Ok") =>
                \A i \in RowIds :
                    IF i \in CanonRows(rawName[r])
                    THEN /\ crates'[i].downloads = crate_info[r].downloads + 1
                         /\ served'[i] = served[i] + 1
                    ELSE crates'[i] = crates[i]]_vars

\* both spellings of the name were served and the one row counts both
C15_Witness ==
    \E r, q \in Slots :
        /\ Returned(r, "Ok") /\ rawName[r] = <<"f", "_", "B">>
        /\ Returned(q, "Ok") /\ rawName[q] = <<"F", "-", "b">>
        /\ served[1] = 2
        /\ crates[1].downloads = 2

\* C16: a request whose method and path no registered route takes is
\* answered NotFound or MethodNotAllowed, a POST to the download path
\* MethodNotAllowed, without any handler: in the step that answers it no
\* statement is issued, no connection is taken and no row, lock or counter
\* changes
Registered(m, path) ==
    \E k \in RouteIds : Routes[k].method = m /\ Matches(Routes[k].pattern, path)
Arrival == started' = started + 1
C16_UnmatchedRequest ==
    [][Arrival =>
        LET q == routed' IN
        /\ (q.method = "POST" /\ q.path = DownloadPath) =>
              /\ q.handler = NoHandler
              /\ response'[q.slot].status = 405
        /\ ~Registered(q.method, q.path) =>
              /\ q.handler = NoHandler
              /\ pc'[q.slot] = "done"
              /\ response'[q.slot].status \in {404, 405}
              /\ response'[q.slot].status = 405 <=> PathKnown(q.path)
              /\ response'[q.slot].error = "None"
              /\ result'[q.slot] = NoResult
              /\ log'[q.slot] = << >>
              /\ dbVars' = dbVars
              /\ poolVars' = poolVars
              /\ served' = served]_vars

\* a POST to the download path was answered MethodNotAllowed while a
\* download was in its unit of work
C16_Witness ==
    /\ routed.method = "POST" /\ routed.path = DownloadPath
    /\ routed.handler = NoHandler
    /\ pc[routed.slot] = "done"
    /\ response[routed.slot].status = 405
    /\ \E r \in Slots : pc[r] = "read_crate"

\* C17: which handler takes a request does not depend on the order of
\* registration: in every order GET /crates/suggest goes to the suggest
\* handler and PUT /crates/new to the publish handler, never to the one of
\* /crates/:name, and a request that a route takes has one most specific
\* route and goes to that route's handler, the same as in the source's order
C17_SpecificityNotOrder ==
    routed.slot # NoSlot =>
        /\ (routed.method = "GET" /\ routed.path = << <<"crates">>, <<"suggest">> >>) =>
              routed.handler = "crates::suggest::get"
        /\ (routed.method = "PUT" /\ routed.path = << <<"crates">>, <<"new">> >>) =>
              routed.handler = "crates::publish::put"
        /\ routed.handler = Dispatch(RegisteredOrder, routed.method, routed.path).handler
        /\ Registered(routed.method, routed.path) =>
              /\ Cardinality(BestMatches(routed.method, routed.path)) = 1
              /\ \A k \in BestMatches(routed.method, routed.path) :
                    routed.handler = Routes[k].handler

\* /crates/:name was registered before /crates/suggest, and the request
\* GET /crates/suggest went to the suggest handler
C17_Witness ==
    /\ Position(order, 11) < Position(order, 10)
    /\ Routes[11].pattern = << <<"crates">>, <<":", "name">> >>
    /\ routed.method = "GET" /\ routed.path = << <<"crates">>, <<"suggest">> >>
    /\ routed.handler = "crates::suggest::get"

\* C18: a download changes at most one row of the table and of it only the
\* downloads column: its update writes exactly the row that the lookup by
\* canonical name found, a step that commits changes that row alone, a
\* request that fails changes none, and no step changes the name or the
\* canonical name of a row
Changed == {i \in RowIds : crates'[i] # crates[i]}
C18_OneRowOneColumn ==
    [][/\ \A i \in RowIds :
             /\ crates'[i].name = crates[i].name
             /\ crates'[i].canon_name = crates[i].canon_name
       /\ Cardinality(Changed) <= 1
       /\ \A r \in Slots :
             /\ (pc[r] = "update" /\ pc'[r] = "read_crate") =>
                   /\ {i \in RowIds : rowLock'[i] = r} = CanonRows(rawName[r])
                   /\ Cardinality(CanonRows(rawName[r])) = 1
                   /\ \A i \in RowIds : rowLock'[i] # r => rowLock'[i] = rowLock[i]
             /\ Returns(r, "Ok") =>
                   /\ Changed \subseteq CanonRows(rawName[r])
                   /\ \A i \in CanonRows(rawName[r]) :
                         crates'[i] = [crates[i] EXCEPT !.downloads = crate_info[r].downloads + 1]
             /\ (pc[r] # pc'[r] /\ pc'[r] \in {"done", "panicked"}
                    /\ result'[r].kind # "Ok") => Changed = {}]_vars

\* a download of F-b was served and one failed after its update: the row
\* of F-b counts one more and the row of Q is as published
C18_Witness ==
    /\ \E r \in Slots : Returned(r, "Ok")
    /\ \E r \in Slots : Returned(r, "ArtifactNotFound")
    /\ crates[1] = [InitialCrates[1] EXCEPT !.downloads = 1]
    /\ crates[2] = InitialCrates[2]

\* C19: the store is read at most once in a request, and only after the
\* select by canonical name and then the update of the row it found have
\* been issued; the read asks for the version requested under the display
\* name stored in that row, which the update was filtered by too; a
\* request that found no row has not read the store
C19_StoreReadLast ==
    \A r \in Slots :
        /\ \A k \in 1..Len(log[r]) :
              log[r][k][1] = "read_crate" =>
                  /\ \E a, b \in 1..Len(log[r]) :
                        /\ a < b /\ b < k
                        /\ log[r][a] = <<"select", canonical_name(rawName[r])>>
                        /\ log[r][b] = <<"update", log[r][k][2]>>
                  /\ \E i \in CanonRows(rawName[r]) : log[r][k][2] = crates[i].name
                  /\ log[r][k][3] = version[r]
                  /\ \A j \in 1..Len(log[r]) : log[r][j][1] = "read_crate" => j = k
        /\ Returned(r, "CrateNotFound") =>
              /\ HasEvent(log[r], "select")
              /\ ~HasEvent(log[r], "read_crate")

\* asked for as f_B and looked up as f_b, the crate was read from the store
\* as F-b
C19_Witness ==
    \E r \in Slots :
        /\ rawName[r] = <<"f", "_", "B">>
        /\ log[r] = << <<"begin">>,
                       <<"select", <<"f", "_", "b">> >>,
                       <<"update", <<"F", "-", "b">> >>,
                       <<"read_crate", <<"F", "-", "b">>, <<"1", ".", "0", ".", "0">> >>,
                       <<"commit">> >>
====
